---- MODULE Spec2Model ----
(***************************************************************************)
(* A model of the thundering-herd cache of src/cache.go (package tcache):  *)
(* the Cache type with New, Get, GetAll, Clear and Update of lines 1-172,  *)
(* and the second Cache of the file, lines 193-311, whose Get returns      *)
(* (value, ok), whose Clear returns an error, and whose operations carry   *)
(* the suffix 2 here.                                                      *)
(*                                                                         *)
(* Every goroutine that calls into the cache is a process p \in Procs with *)
(* a program counter pc[p]; each action is one step of one call, cut at    *)
(* the lock operations and at the fetcher call, so that every interleaving *)
(* the two RWMutexes allow is a behaviour of the model.  The fetcher is    *)
(* external: an invocation returns any value of Values, or any error of    *)
(* Errs, whenever it returns.                                              *)
(***************************************************************************)
EXTENDS Naturals, FiniteSets

\* ---------------------------------------------------------------- bounds
NumProcs == 2
MaxCalls == 3

Procs == 1..NumProcs
Keys == {"a", "b"}
Values == {"v1", "v2"}
Errs == {"e1"}

\* ------------------------------------------------------------- constants
Nil == "nil"
Absent == "absent"
ErrNotInitialized == "ErrNotInitialized"
NoProc == 0

\* ------------------------------------------------------------ Go values
\* A Go map: isNil tells the nil map from an allocated one, kv holds the
\* entries (Absent: no entry under that key).
NilItems == [isNil |-> TRUE, kv |-> [k \in Keys |-> Absent]]
EmptyItems == [isNil |-> FALSE, kv |-> [k \in Keys |-> Absent]]
\* map[string]bool: a missing key reads as false, as an entry holding false does.
NilFlags == [isNil |-> TRUE, kv |-> [k \in Keys |-> FALSE]]
EmptyFlags == [isNil |-> FALSE, kv |-> [k \in Keys |-> FALSE]]

\* sync.RWMutex: w is the goroutine holding it for writing, r those reading.
FreeLock == [w |-> NoProc, r |-> {}]
CanRLock(l) == l.w = NoProc
CanLock(l) == l.w = NoProc /\ l.r = {}
RLock(l, p) == [l EXCEPT !.r = @ \cup {p}]
RUnlock(l, p) == [l EXCEPT !.r = @ \ {p}]
Lock(l, p) == [l EXCEPT !.w = p]
Unlock(l, p) == [l EXCEPT !.w = NoProc]

\* What one invocation of the fetcher may return: (value, nil) or (nil, err).
FetchResults ==
    {[value |-> v, err |-> Nil] : v \in Values} \cup {[value |-> Nil, err |-> e] : e \in Errs}
NoFetch == [value |-> Nil, err |-> Nil]

\* What the prewarm function may return: (map, nil), with the nil map among
\* the maps, or (nil, err).
PreWarmResults ==
    { [items |-> NilItems, err |-> Nil],
      [items |-> [isNil |-> FALSE, kv |-> [k \in Keys |-> IF k = "a" THEN "v1" ELSE Absent]],
       err |-> Nil],
      [items |-> NilItems, err |-> "e1"] }

VARIABLES
    cache,              \* "none", "new" (returned by New), "zero" (&Cache{}), "failed"
    items,              \* Cache.items
    isBeingFetchedMap,  \* Cache.isBeingFetchedMap
    isBeingFetchedWG,   \* Cache.isBeingFetchedWG: which keys have a *sync.WaitGroup
    wg,                 \* the counter of each key's WaitGroup
    itemsLock,          \* Cache.itemsLock
    isBeingFetchedLock, \* Cache.isBeingFetchedLock
    pc,                 \* where each goroutine is in its call
    key,                \* the key argument of the running call
    value,              \* the local/named result value
    res,                \* what the goroutine's last call returned
    calls,              \* how many calls were issued so far
    fetchCount,         \* per key, how many times the fetcher was invoked
    fetched,            \* what the fetcher returned to the running call, if invoked
    clearCalled,        \* some Clear was called
    updateCalled,       \* some Update was called
    sawStored,          \* the value stored under its key when the running Get started
    failed,             \* keys for which a Get leader returned the fetcher's error
    retry,              \* the running Get is a lone retry of a failed key
    fetchOld,           \* the call's fetch started before the latest Update of its key
    upd,                \* per key, the latest Update call and whether it returned nil
    stored,             \* per key, the values the prewarm and the Get leaders stored
    postClear,          \* the running call started on the store as a Clear left it
    clearSeen,          \* a Clear returned while the call's fetch was under way
    cleared,            \* a Clear has returned and nothing was stored since
    warm,               \* what the prewarm function returned to New
    newErr              \* the error New returned

realVars == <<cache, items, isBeingFetchedMap, isBeingFetchedWG, wg, itemsLock,
              isBeingFetchedLock, pc, key, value>>
histVars == <<res, calls, fetchCount, fetched, clearCalled, updateCalled, sawStored,
              failed, retry, fetchOld, upd, stored, postClear, clearSeen, cleared,
              warm, newErr>>
vars == <<realVars, histVars>>

NoRes == [op |-> "none", key |-> Nil, value |-> Nil, err |-> Nil, ok |-> FALSE,
          all |-> NilItems, fetched |-> NoFetch, sawStored |-> {}, retry |-> FALSE,
          inStore |-> Absent, postClear |-> FALSE]
NoUpd == [by |-> NoProc, ok |-> FALSE]
\* New was given no prewarm function.
NoWarm == [given |-> FALSE, items |-> NilItems, err |-> Nil]

Init ==
    /\ cache = "none"
    /\ items = NilItems
    /\ isBeingFetchedMap = NilFlags
    /\ isBeingFetchedWG = NilFlags
    /\ wg = [k \in Keys |-> 0]
    /\ itemsLock = FreeLock
    /\ isBeingFetchedLock = FreeLock
    /\ pc = [p \in Procs |-> "idle"]
    /\ key = [p \in Procs |-> Nil]
    /\ value = [p \in Procs |-> Nil]
    /\ res = [p \in Procs |-> NoRes]
    /\ calls = 0
    /\ fetchCount = [k \in Keys |-> 0]
    /\ fetched = [p \in Procs |-> NoFetch]
    /\ clearCalled = FALSE
    /\ updateCalled = FALSE
    /\ sawStored = [p \in Procs |-> {}]
    /\ failed = {}
    /\ retry = [p \in Procs |-> FALSE]
    /\ fetchOld = [p \in Procs |-> FALSE]
    /\ upd = [k \in Keys |-> NoUpd]
    /\ stored = [k \in Keys |-> {}]
    /\ postClear = [p \in Procs |-> FALSE]
    /\ clearSeen = [p \in Procs |-> FALSE]
    /\ cleared = FALSE
    /\ warm = NoWarm
    /\ newErr = Nil

\* A panic or a fatal runtime error in any goroutine ends the program.
Panicked == "panic"
Crashed == \E p \in Procs : pc[p] = "panic"
Usable == cache \in {"new", "zero"} /\ ~Crashed
CanCall(p) == Usable /\ pc[p] = "idle" /\ calls < MaxCalls
OthersIdle(p) == \A q \in Procs \ {p} : pc[q] = "idle"

mapVars == <<items, isBeingFetchedMap, isBeingFetchedWG, wg>>
lockVars == <<itemsLock, isBeingFetchedLock>>
callVars == <<key, value, res, fetched, sawStored, retry, postClear, clearSeen, fetchOld>>
globVars == <<calls, fetchCount, clearCalled, updateCalled, failed, upd, stored, cleared, warm, newErr>>

\* The goroutine moves to the next statement.
Goto(p, to) == pc' = [pc EXCEPT ![p] = to]
\* An unrecovered panic (or a fatal runtime error): the program ends here.
\* The call of o that panicked is recorded as such.
Panic(p, o) ==
    /\ Goto(p, "panic")
    /\ res' = [res EXCEPT ![p] = [NoRes EXCEPT !.op = o, !.key = key[p], !.err = Panicked]]
    /\ UNCHANGED <<cache, mapVars, lockVars, key, value, fetched, sawStored, retry, postClear, clearSeen,
                   fetchOld, globVars>>

\* The store's entry under the call's key.
Entry(p) == IF key[p] \in Keys THEN items.kv[key[p]] ELSE Absent

\* The call returns (v, e) (for GetAll: the map a), having got f from the
\* fetcher and leaving st in the store under its key: its result is recorded
\* and the goroutine's locals die.
FinishCall(p, o, v, e, a, f, st) ==
    /\ res' = [res EXCEPT ![p] = [op |-> o, key |-> key[p], value |-> v, err |-> e,
                                  ok |-> FALSE, all |-> a, fetched |-> f,
                                  sawStored |-> sawStored[p], retry |-> retry[p],
                                  inStore |-> st, postClear |-> postClear[p]]]
    /\ key' = [key EXCEPT ![p] = Nil]
    /\ value' = [value EXCEPT ![p] = Nil]
    /\ fetched' = [fetched EXCEPT ![p] = NoFetch]
    /\ sawStored' = [sawStored EXCEPT ![p] = {}]
    /\ retry' = [retry EXCEPT ![p] = FALSE]
    /\ fetchOld' = [fetchOld EXCEPT ![p] = FALSE]
    /\ postClear' = [postClear EXCEPT ![p] = FALSE]
Finish(p, o, v, e, a, f, st) ==
    /\ FinishCall(p, o, v, e, a, f, st)
    /\ clearSeen' = [clearSeen EXCEPT ![p] = FALSE]

\* A call starts: its key is bound, the goroutine's previous result is
\* dropped, and no running call is alone any more.  A call is marked in
\* postClear when it starts on the store as a Clear left it: a GetAll, or a
\* Get of a key that was cached before, with no other call running then or
\* starting before the Get returns.
Begin(p, k, saw, lone) ==
    /\ key' = [key EXCEPT ![p] = k]
    /\ sawStored' = [sawStored EXCEPT ![p] = saw]
    /\ retry' = [q \in Procs |-> IF q = p THEN lone ELSE FALSE]
    /\ postClear' = [q \in Procs |->
                        IF q = p
                        THEN /\ cache = "new" /\ cleared
                             /\ k \in Keys => (saw # {} /\ OthersIdle(p))
                        ELSE postClear[q] /\ key[q] = Nil]
    /\ calls' = calls + 1
    /\ res' = [res EXCEPT ![p] = NoRes]
    /\ UNCHANGED <<value, fetched, clearSeen>>

\* sync.WaitGroup.  Wait blocks while the counter is positive; the Done that
\* brings the counter to zero releases every goroutine blocked in Wait.
Blocked(q, k) == pc[q] \in {"g_blocked", "u_blocked", "h_blocked"} /\ key[q] = k
Woken(q) == CASE pc[q] = "g_blocked" -> "g_woken"
              [] pc[q] = "u_blocked" -> "u_woken"
              [] OTHER -> "h_woken"
\* pc after goroutine p has run wg.Done() on key k's WaitGroup and gone to `to`.
DonePc(p, k, to) ==
    [q \in Procs |-> IF q = p THEN to
                     ELSE IF wg[k] = 1 /\ Blocked(q, k) THEN Woken(q)
                     ELSE pc[q]]
DoneWG(k) == [wg EXCEPT ![k] = @ - 1]

\* A goroutine holding isBeingFetchedLock that is about to insert a new
\* WaitGroup into the isBeingFetchedWG map (lines 75-78, 140-143).
WritesWG(q) == /\ pc[q] \in {"g_mark", "u_mark", "h_mark"}
               /\ ~isBeingFetchedMap.isNil
               /\ ~isBeingFetchedWG.kv[key[q]]
\* The unlocked read of isBeingFetchedWG races with such a write.
RacyWGRead(p) == \E q \in Procs \ {p} : WritesWG(q)

InFetch(p) == pc[p] \in {"g_fetch", "u_fetch", "u_fetch2", "h_fetch"}
\* The call has started a fetch whose result it has not stored yet.
HasFetch(p) == pc[p] \in {"g_fetch", "g_store_lock", "g_store",
                          "u_fetch", "u_store_lock", "u_store",
                          "u_fetch2", "u_store2_lock", "u_store2",
                          "h_fetch", "h_store_lock", "h_store"}

\* ------------------------------------------------------------ construction
\* New(fetch, nil): no prewarm, the store starts as an empty map.
NewPlain ==
    /\ cache = "none"
    /\ cache' = "new"
    /\ items' = EmptyItems
    /\ isBeingFetchedMap' = EmptyFlags
    /\ isBeingFetchedWG' = EmptyFlags
    /\ UNCHANGED <<wg, lockVars, pc, callVars, globVars>>

\* NewPreWarm, were New to go on to line 39 after the prewarm's error.
NewPreWarmDropsError ==
    /\ cache = "none"
    /\ \E r \in PreWarmResults :
         /\ warm' = [given |-> TRUE, items |-> r.items, err |-> r.err]
         /\ newErr' = Nil
         /\ cache' = "new"
         /\ items' = r.items
         /\ isBeingFetchedMap' = EmptyFlags
         /\ isBeingFetchedWG' = EmptyFlags
         /\ stored' = [k \in Keys |-> {r.items.kv[k]} \ {Absent}]
    /\ UNCHANGED <<wg, lockVars, pc, callVars, calls, fetchCount, clearCalled,
                   updateCalled, failed, upd, cleared>>

\* New(fetch, &preWarmInit), lines 27-46: the prewarm's map becomes the
\* store as it is; its error aborts the construction, New returning that
\* error and a nil cache (line 30).
NewPreWarm ==
    /\ cache = "none"
    /\ \E r \in PreWarmResults :
         /\ warm' = [given |-> TRUE, items |-> r.items, err |-> r.err]
         /\ newErr' = r.err
         /\ IF r.err # Nil
            THEN /\ cache' = "failed"
                 /\ UNCHANGED <<items, isBeingFetchedMap, isBeingFetchedWG, stored>>
            ELSE /\ cache' = "new"
                 /\ items' = r.items
                 /\ isBeingFetchedMap' = EmptyFlags
                 /\ isBeingFetchedWG' = EmptyFlags
                 /\ stored' = [k \in Keys |-> {r.items.kv[k]} \ {Absent}]
    /\ UNCHANGED <<wg, lockVars, pc, callVars, calls, fetchCount, clearCalled,
                   updateCalled, failed, upd, cleared>>

\* &Cache{}: the zero value, every map nil.
ZeroValue ==
    /\ cache = "none"
    /\ cache' = "zero"
    /\ UNCHANGED <<mapVars, lockVars, pc, callVars, globVars>>

\* --------------------------------------------------------------------- Get
\* Get(key) is called and takes the store's read lock (line 56).
GetCall(p, k) ==
    /\ CanCall(p)
    /\ CanRLock(itemsLock)
    /\ itemsLock' = RLock(itemsLock, p)
    /\ Goto(p, "g_read")
    /\ Begin(p, k, stored[k],
             k \in failed /\ OthersIdle(p) /\ ~items.isNil /\ items.kv[k] = Absent)
    /\ UNCHANGED <<cache, mapVars, isBeingFetchedLock, fetchOld,
                   fetchCount, clearCalled, updateCalled, failed, upd, stored, cleared, warm, newErr>>

\* GetRead without the nil check of lines 57-61 (as in lines 252-256): the
\* lookup in a nil store misses.
GetReadNoNilCheck(p) ==
    /\ ~Crashed /\ pc[p] = "g_read"
    /\ itemsLock' = RUnlock(itemsLock, p)
    /\ IF items.kv[key[p]] # Absent
       THEN /\ Goto(p, "idle")
            /\ Finish(p, "Get", items.kv[key[p]], Nil, NilItems, fetched[p], Entry(p))
       ELSE /\ Goto(p, "g_chk_rlock")
            /\ UNCHANGED callVars
    /\ UNCHANGED <<cache, mapVars, isBeingFetchedLock, globVars>>

\* Lines 57-65: the nil check, the lookup, the hit's return.
GetRead(p) ==
    /\ ~Crashed /\ pc[p] = "g_read"
    /\ itemsLock' = RUnlock(itemsLock, p)
    /\ IF items.isNil
       THEN /\ Goto(p, "idle")
            /\ Finish(p, "Get", Nil, ErrNotInitialized, NilItems, fetched[p], Entry(p))
       ELSE IF items.kv[key[p]] # Absent
       THEN /\ Goto(p, "idle")
            /\ Finish(p, "Get", items.kv[key[p]], Nil, NilItems, fetched[p], Entry(p))
       ELSE /\ Goto(p, "g_chk_rlock")
            /\ UNCHANGED callVars
    /\ UNCHANGED <<cache, mapVars, isBeingFetchedLock, globVars>>

\* Line 67.
GetChkRLock(p) ==
    /\ ~Crashed /\ pc[p] = "g_chk_rlock"
    /\ CanRLock(isBeingFetchedLock)
    /\ isBeingFetchedLock' = RLock(isBeingFetchedLock, p)
    /\ Goto(p, "g_chk")
    /\ UNCHANGED <<cache, mapVars, itemsLock, callVars, globVars>>

\* Lines 68-71: read the in-flight flag, release, branch.
GetChk(p) ==
    /\ ~Crashed /\ pc[p] = "g_chk"
    /\ isBeingFetchedLock' = RUnlock(isBeingFetchedLock, p)
    /\ Goto(p, IF isBeingFetchedMap.kv[key[p]] THEN "g_wait" ELSE "g_lock")
    /\ UNCHANGED <<cache, mapVars, itemsLock, callVars, globVars>>

\* Line 72.
GetLock(p) ==
    /\ ~Crashed /\ pc[p] = "g_lock"
    /\ CanLock(isBeingFetchedLock)
    /\ isBeingFetchedLock' = Lock(isBeingFetchedLock, p)
    /\ Goto(p, "g_mark")
    /\ UNCHANGED <<cache, mapVars, itemsLock, callVars, globVars>>

\* GetMark without the Unlock of line 80: the fetcher is entered with the
\* tracker's lock held.
GetMarkKeepsLock(p) ==
    /\ ~Crashed /\ pc[p] = "g_mark"
    /\ IF isBeingFetchedMap.isNil \/ isBeingFetchedWG.isNil
       THEN Panic(p, "Get")
       ELSE /\ isBeingFetchedMap' = [isBeingFetchedMap EXCEPT !.kv[key[p]] = TRUE]
            /\ isBeingFetchedWG' = [isBeingFetchedWG EXCEPT !.kv[key[p]] = TRUE]
            /\ wg' = [wg EXCEPT ![key[p]] = @ + 1]
            /\ Goto(p, "g_fetch")
            /\ fetchCount' = [fetchCount EXCEPT ![key[p]] = @ + 1]
            /\ fetchOld' = [fetchOld EXCEPT ![p] = FALSE]
            /\ UNCHANGED <<cache, items, lockVars, key, value, res, fetched, sawStored,
                           retry, postClear, clearSeen, calls, clearCalled, updateCalled,
                           failed, upd, stored, cleared, warm, newErr>>

\* Lines 73-84: mark the key, make or reuse its WaitGroup, Add(1), unlock,
\* defer Done, and enter the fetcher.  Writing a nil map panics.
GetMark(p) ==
    /\ ~Crashed /\ pc[p] = "g_mark"
    /\ IF isBeingFetchedMap.isNil \/ isBeingFetchedWG.isNil
       THEN Panic(p, "Get")
       ELSE /\ isBeingFetchedMap' = [isBeingFetchedMap EXCEPT !.kv[key[p]] = TRUE]
            /\ isBeingFetchedWG' = [isBeingFetchedWG EXCEPT !.kv[key[p]] = TRUE]
            /\ wg' = [wg EXCEPT ![key[p]] = @ + 1]
            /\ isBeingFetchedLock' = Unlock(isBeingFetchedLock, p)
            /\ Goto(p, "g_fetch")
            /\ fetchCount' = [fetchCount EXCEPT ![key[p]] = @ + 1]
            /\ fetchOld' = [fetchOld EXCEPT ![p] = FALSE]
            /\ UNCHANGED <<cache, items, itemsLock, key, value, res, fetched, sawStored,
                           retry, postClear, clearSeen, calls, clearCalled, updateCalled, failed, upd, stored, cleared, warm, newErr>>

\* Lines 84-87: the fetcher returns.  On an error the call returns at once
\* with what the fetcher returned (the deferred Done of line 81 runs); the
\* in-flight flag stays as it is.
GetFetchRet(p) ==
    /\ ~Crashed /\ pc[p] = "g_fetch"
    /\ \E r \in FetchResults :
         IF r.err # Nil
         THEN /\ wg' = DoneWG(key[p])
              /\ pc' = DonePc(p, key[p], "idle")
              /\ Finish(p, "Get", r.value, r.err, NilItems, r, Entry(p))
              /\ failed' = failed \cup {key[p]}
         ELSE /\ value' = [value EXCEPT ![p] = r.value]
              /\ fetched' = [fetched EXCEPT ![p] = r]
              /\ Goto(p, "g_store_lock")
              /\ UNCHANGED <<wg, key, res, sawStored, retry, postClear, clearSeen, fetchOld, failed>>
    /\ UNCHANGED <<cache, items, isBeingFetchedMap, isBeingFetchedWG, lockVars,
                   calls, fetchCount, clearCalled, updateCalled, upd, stored, cleared, warm, newErr>>

\* Line 89.
GetStoreLock(p) ==
    /\ ~Crashed /\ pc[p] = "g_store_lock"
    /\ CanLock(itemsLock)
    /\ itemsLock' = Lock(itemsLock, p)
    /\ Goto(p, "g_store")
    /\ UNCHANGED <<cache, mapVars, isBeingFetchedLock, callVars, globVars>>

\* Lines 90-91: the fetched value goes into the store.
GetStore(p) ==
    /\ ~Crashed /\ pc[p] = "g_store"
    /\ IF items.isNil
       THEN Panic(p, "Get")
       ELSE /\ items' = [items EXCEPT !.kv[key[p]] = value[p]]
            /\ itemsLock' = Unlock(itemsLock, p)
            /\ Goto(p, "g_unmark_lock")
            /\ stored' = [stored EXCEPT ![key[p]] = @ \cup {value[p]}]
            /\ cleared' = FALSE
            /\ UNCHANGED <<cache, isBeingFetchedMap, isBeingFetchedWG, wg,
                           isBeingFetchedLock, callVars, calls, fetchCount, clearCalled,
                           updateCalled, failed, upd, warm, newErr>>

\* Line 93.
GetUnmarkLock(p) ==
    /\ ~Crashed /\ pc[p] = "g_unmark_lock"
    /\ CanLock(isBeingFetchedLock)
    /\ isBeingFetchedLock' = Lock(isBeingFetchedLock, p)
    /\ Goto(p, "g_unmark")
    /\ UNCHANGED <<cache, mapVars, itemsLock, callVars, globVars>>

\* Lines 94-95: the in-flight flag is reset.
GetUnmark(p) ==
    /\ ~Crashed /\ pc[p] = "g_unmark"
    /\ isBeingFetchedMap' = [isBeingFetchedMap EXCEPT !.kv[key[p]] = FALSE]
    /\ isBeingFetchedLock' = Unlock(isBeingFetchedLock, p)
    /\ Goto(p, "g_ret")
    /\ UNCHANGED <<cache, items, isBeingFetchedWG, wg, itemsLock, callVars, globVars>>

\* Line 103 on the leader's path: return, and the deferred Done of line 81.
GetRet(p) ==
    /\ ~Crashed /\ pc[p] = "g_ret"
    /\ wg' = DoneWG(key[p])
    /\ pc' = DonePc(p, key[p], "idle")
    /\ Finish(p, "Get", value[p], Nil, NilItems, fetched[p], Entry(p))
    /\ UNCHANGED <<cache, items, isBeingFetchedMap, isBeingFetchedWG, lockVars, globVars>>

\* Line 97: the follower looks its key's WaitGroup up without any lock and
\* calls Wait.  A lookup concurrent with a write of the map is a data race:
\* it may go through, or the runtime ends the program (concurrent map read
\* and map write).  A nil *WaitGroup panics.  With the counter at zero Wait
\* returns at once, else the goroutine blocks.
GetWait(p) ==
    /\ ~Crashed /\ pc[p] = "g_wait"
    /\ \E fatal \in {FALSE} \cup {RacyWGRead(p)} :
         IF fatal \/ ~isBeingFetchedWG.kv[key[p]]
         THEN Panic(p, "Get")
         ELSE /\ Goto(p, IF wg[key[p]] = 0 THEN "g_reread_rlock" ELSE "g_blocked")
              /\ UNCHANGED <<cache, mapVars, lockVars, callVars, globVars>>

\* Wait resumes after the release.  sync.WaitGroup panics when it finds
\* that an Add has run since (WaitGroup is reused before previous Wait has
\* returned).
GetWoken(p) ==
    /\ ~Crashed /\ pc[p] = "g_woken"
    /\ IF wg[key[p]] # 0
       THEN Panic(p, "Get")
       ELSE /\ Goto(p, "g_reread_rlock")
            /\ UNCHANGED <<cache, mapVars, lockVars, callVars, globVars>>

\* Line 98.
GetRereadRLock(p) ==
    /\ ~Crashed /\ pc[p] = "g_reread_rlock"
    /\ CanRLock(itemsLock)
    /\ itemsLock' = RLock(itemsLock, p)
    /\ Goto(p, "g_reread")
    /\ UNCHANGED <<cache, mapVars, isBeingFetchedLock, callVars, globVars>>

\* Lines 99-103: the follower returns whatever the store holds now, nil for
\* a missing key, with a nil error.
GetReread(p) ==
    /\ ~Crashed /\ pc[p] = "g_reread"
    /\ itemsLock' = RUnlock(itemsLock, p)
    /\ Goto(p, "idle")
    /\ Finish(p, "Get", IF items.kv[key[p]] = Absent THEN Nil ELSE items.kv[key[p]],
              Nil, NilItems, fetched[p], Entry(p))
    /\ UNCHANGED <<cache, mapVars, isBeingFetchedLock, globVars>>

\* ------------------------------------------------------------------ GetAll
\* GetAll() is called and takes the store's read lock (lines 109-110).
GetAllCall(p) ==
    /\ CanCall(p)
    /\ CanRLock(itemsLock)
    /\ itemsLock' = RLock(itemsLock, p)
    /\ Goto(p, "a_copy")
    /\ Begin(p, Nil, {}, FALSE)
    /\ UNCHANGED <<cache, mapVars, isBeingFetchedLock, fetchOld,
                   fetchCount, clearCalled, updateCalled, failed, upd, stored, cleared, warm, newErr>>

\* Lines 111-118: nil for a nil store, else a copy of it; the read lock is
\* released on return.
GetAllCopy(p) ==
    /\ ~Crashed /\ pc[p] = "a_copy"
    /\ itemsLock' = RUnlock(itemsLock, p)
    /\ Goto(p, "idle")
    /\ Finish(p, "GetAll", Nil, Nil, IF items.isNil THEN NilItems ELSE items, fetched[p], Entry(p))
    /\ UNCHANGED <<cache, mapVars, isBeingFetchedLock, globVars>>

\* ------------------------------------------------------------------- Clear
\* Clear() is called and takes the store's write lock (line 122).
ClearCall(p) ==
    /\ CanCall(p)
    /\ CanLock(itemsLock)
    /\ itemsLock' = Lock(itemsLock, p)
    /\ Goto(p, "c_set")
    /\ Begin(p, Nil, {}, FALSE)
    /\ clearCalled' = TRUE
    /\ upd' = [k \in Keys |-> NoUpd]
    /\ UNCHANGED <<cache, mapVars, isBeingFetchedLock, fetchOld,
                   fetchCount, updateCalled, failed, stored, cleared, warm, newErr>>

\* ClearSet, were Clear to start the tracker afresh as well.
ClearSetResetsTracker(p) ==
    /\ ~Crashed /\ pc[p] = "c_set"
    /\ items' = EmptyItems
    /\ isBeingFetchedMap' = EmptyFlags
    /\ itemsLock' = Unlock(itemsLock, p)
    /\ Goto(p, "idle")
    /\ FinishCall(p, "Clear", Nil, Nil, NilItems, fetched[p], Entry(p))
    /\ cleared' = TRUE
    /\ clearSeen' = [q \in Procs |-> q # p /\ (clearSeen[q] \/ HasFetch(q))]
    /\ UNCHANGED <<cache, isBeingFetchedWG, wg, isBeingFetchedLock,
                   calls, fetchCount, clearCalled, updateCalled, failed, upd, stored,
                   warm, newErr>>

\* Lines 123-125: a fresh empty map replaces the store, whatever it was;
\* Clear returns nothing.
ClearSet(p) ==
    /\ ~Crashed /\ pc[p] = "c_set"
    /\ items' = EmptyItems
    /\ itemsLock' = Unlock(itemsLock, p)
    /\ Goto(p, "idle")
    /\ FinishCall(p, "Clear", Nil, Nil, NilItems, fetched[p], Entry(p))
    /\ cleared' = TRUE
    /\ clearSeen' = [q \in Procs |-> q # p /\ (clearSeen[q] \/ HasFetch(q))]
    /\ UNCHANGED <<cache, isBeingFetchedMap, isBeingFetchedWG, wg, isBeingFetchedLock,
                   calls, fetchCount, clearCalled, updateCalled, failed, upd, stored,
                   warm, newErr>>

\* ------------------------------------------------------------------ Update
\* Update(key) is called and takes the tracker's read lock (line 131).
UpdateCall(p, k) ==
    /\ CanCall(p)
    /\ CanRLock(isBeingFetchedLock)
    /\ isBeingFetchedLock' = RLock(isBeingFetchedLock, p)
    /\ Goto(p, "u_chk")
    /\ Begin(p, k, {}, FALSE)
    /\ updateCalled' = TRUE
    /\ upd' = [upd EXCEPT ![k] = [by |-> p, ok |-> FALSE]]
    /\ fetchOld' = [q \in Procs |-> fetchOld[q] \/ (HasFetch(q) /\ key[q] = k)]
    /\ UNCHANGED <<cache, mapVars, itemsLock, fetchCount, clearCalled, failed, stored, cleared, warm, newErr>>

\* Lines 132-136: read the in-flight flag, release, branch.
UpdateChk(p) ==
    /\ ~Crashed /\ pc[p] = "u_chk"
    /\ isBeingFetchedLock' = RUnlock(isBeingFetchedLock, p)
    /\ Goto(p, IF isBeingFetchedMap.kv[key[p]] THEN "u_wait" ELSE "u_lock")
    /\ UNCHANGED <<cache, mapVars, itemsLock, callVars, globVars>>

\* Line 137.
UpdateLock(p) ==
    /\ ~Crashed /\ pc[p] = "u_lock"
    /\ CanLock(isBeingFetchedLock)
    /\ isBeingFetchedLock' = Lock(isBeingFetchedLock, p)
    /\ Goto(p, "u_mark")
    /\ UNCHANGED <<cache, mapVars, itemsLock, callVars, globVars>>

\* Lines 138-149: as Get's lines 73-84.
UpdateMark(p) ==
    /\ ~Crashed /\ pc[p] = "u_mark"
    /\ IF isBeingFetchedMap.isNil \/ isBeingFetchedWG.isNil
       THEN Panic(p, "Update")
       ELSE /\ isBeingFetchedMap' = [isBeingFetchedMap EXCEPT !.kv[key[p]] = TRUE]
            /\ isBeingFetchedWG' = [isBeingFetchedWG EXCEPT !.kv[key[p]] = TRUE]
            /\ wg' = [wg EXCEPT ![key[p]] = @ + 1]
            /\ isBeingFetchedLock' = Unlock(isBeingFetchedLock, p)
            /\ Goto(p, "u_fetch")
            /\ fetchCount' = [fetchCount EXCEPT ![key[p]] = @ + 1]
            /\ fetchOld' = [fetchOld EXCEPT ![p] = FALSE]
            /\ UNCHANGED <<cache, items, itemsLock, key, value, res, fetched, sawStored,
                           retry, postClear, clearSeen, calls, clearCalled, updateCalled, failed, upd, stored, cleared, warm, newErr>>

\* Lines 149-152: the leader's fetch returns; an error returns at once
\* (deferred Done of line 146), the in-flight flag staying as it is.
UpdateFetchRet(p) ==
    /\ ~Crashed /\ pc[p] = "u_fetch"
    /\ \E r \in FetchResults :
         IF r.err # Nil
         THEN /\ wg' = DoneWG(key[p])
              /\ pc' = DonePc(p, key[p], "idle")
              /\ Finish(p, "Update", Nil, r.err, NilItems, r, Entry(p))
         ELSE /\ value' = [value EXCEPT ![p] = r.value]
              /\ fetched' = [fetched EXCEPT ![p] = r]
              /\ Goto(p, "u_store_lock")
              /\ UNCHANGED <<wg, key, res, sawStored, retry, postClear, clearSeen, fetchOld>>
    /\ UNCHANGED <<cache, items, isBeingFetchedMap, isBeingFetchedWG, lockVars, globVars>>

\* Line 154.
UpdateStoreLock(p) ==
    /\ ~Crashed /\ pc[p] = "u_store_lock"
    /\ CanLock(itemsLock)
    /\ itemsLock' = Lock(itemsLock, p)
    /\ Goto(p, "u_store")
    /\ UNCHANGED <<cache, mapVars, isBeingFetchedLock, callVars, globVars>>

\* Lines 155-156.  Update never checks the store for nil: writing a nil
\* store panics.
UpdateStore(p) ==
    /\ ~Crashed /\ pc[p] = "u_store"
    /\ IF items.isNil
       THEN Panic(p, "Update")
       ELSE /\ items' = [items EXCEPT !.kv[key[p]] = value[p]]
            /\ itemsLock' = Unlock(itemsLock, p)
            /\ Goto(p, "u_unmark_lock")
            /\ cleared' = FALSE
            /\ UNCHANGED <<cache, isBeingFetchedMap, isBeingFetchedWG, wg,
                           isBeingFetchedLock, callVars, calls, fetchCount, clearCalled,
                           updateCalled, failed, upd, stored, warm, newErr>>

\* Line 158.
UpdateUnmarkLock(p) ==
    /\ ~Crashed /\ pc[p] = "u_unmark_lock"
    /\ CanLock(isBeingFetchedLock)
    /\ isBeingFetchedLock' = Lock(isBeingFetchedLock, p)
    /\ Goto(p, "u_unmark")
    /\ UNCHANGED <<cache, mapVars, itemsLock, callVars, globVars>>

\* Lines 159-160.
UpdateUnmark(p) ==
    /\ ~Crashed /\ pc[p] = "u_unmark"
    /\ isBeingFetchedMap' = [isBeingFetchedMap EXCEPT !.kv[key[p]] = FALSE]
    /\ isBeingFetchedLock' = Unlock(isBeingFetchedLock, p)
    /\ Goto(p, "u_ret")
    /\ UNCHANGED <<cache, items, isBeingFetchedWG, wg, itemsLock, callVars, globVars>>

\* The latest Update of key k, called by p, returns a nil error.
UpdReturned(p, k) ==
    [upd EXCEPT ![k] = IF @.by = p THEN [by |-> p, ok |-> TRUE] ELSE @]

\* Line 171 on the leader's path: return nil, and the deferred Done of line 146.
UpdateRet(p) ==
    /\ ~Crashed /\ pc[p] = "u_ret"
    /\ wg' = DoneWG(key[p])
    /\ pc' = DonePc(p, key[p], "idle")
    /\ Finish(p, "Update", Nil, Nil, NilItems, fetched[p], Entry(p))
    /\ upd' = UpdReturned(p, key[p])
    /\ UNCHANGED <<cache, items, isBeingFetchedMap, isBeingFetchedWG, lockVars,
                   calls, fetchCount, clearCalled, updateCalled, failed, stored, cleared, warm, newErr>>

\* Lines 162-163: with a fetch in flight Update waits on the key's
\* WaitGroup (looked up without any lock, as in Get's line 97) and then
\* calls the fetcher itself, touching neither the flag nor the WaitGroup.
UpdateWait(p) ==
    /\ ~Crashed /\ pc[p] = "u_wait"
    /\ \E fatal \in {FALSE} \cup {RacyWGRead(p)} :
         IF fatal \/ ~isBeingFetchedWG.kv[key[p]]
         THEN Panic(p, "Update")
         ELSE /\ IF wg[key[p]] = 0
                 THEN /\ Goto(p, "u_fetch2")
                      /\ fetchCount' = [fetchCount EXCEPT ![key[p]] = @ + 1]
                      /\ fetchOld' = [fetchOld EXCEPT ![p] = FALSE]
                 ELSE /\ Goto(p, "u_blocked")
                      /\ UNCHANGED <<fetchCount, fetchOld>>
              /\ UNCHANGED <<cache, mapVars, lockVars, key, value, res, fetched,
                             sawStored, retry, postClear, clearSeen, calls, clearCalled, updateCalled, failed,
                             upd, stored, cleared, warm, newErr>>

\* Wait resumes after the release (see GetWoken), and line 163 calls the fetcher.
UpdateWoken(p) ==
    /\ ~Crashed /\ pc[p] = "u_woken"
    /\ IF wg[key[p]] # 0
       THEN Panic(p, "Update")
       ELSE /\ Goto(p, "u_fetch2")
            /\ fetchCount' = [fetchCount EXCEPT ![key[p]] = @ + 1]
            /\ fetchOld' = [fetchOld EXCEPT ![p] = FALSE]
            /\ UNCHANGED <<cache, mapVars, lockVars, key, value, res, fetched, sawStored,
                           retry, postClear, clearSeen, calls, clearCalled, updateCalled, failed, upd, stored, cleared, warm, newErr>>

\* Lines 163-166: the waiting Update's own fetch returns.
UpdateFetch2Ret(p) ==
    /\ ~Crashed /\ pc[p] = "u_fetch2"
    /\ \E r \in FetchResults :
         IF r.err # Nil
         THEN /\ Goto(p, "idle")
              /\ Finish(p, "Update", Nil, r.err, NilItems, r, Entry(p))
         ELSE /\ value' = [value EXCEPT ![p] = r.value]
              /\ fetched' = [fetched EXCEPT ![p] = r]
              /\ Goto(p, "u_store2_lock")
              /\ UNCHANGED <<key, res, sawStored, retry, postClear, clearSeen, fetchOld>>
    /\ UNCHANGED <<cache, mapVars, lockVars, globVars>>

\* Line 167.
UpdateStore2Lock(p) ==
    /\ ~Crashed /\ pc[p] = "u_store2_lock"
    /\ CanLock(itemsLock)
    /\ itemsLock' = Lock(itemsLock, p)
    /\ Goto(p, "u_store2")
    /\ UNCHANGED <<cache, mapVars, isBeingFetchedLock, callVars, globVars>>

\* Lines 168-171: store and return nil.
UpdateStore2(p) ==
    /\ ~Crashed /\ pc[p] = "u_store2"
    /\ IF items.isNil
       THEN Panic(p, "Update")
       ELSE /\ items' = [items EXCEPT !.kv[key[p]] = value[p]]
            /\ itemsLock' = Unlock(itemsLock, p)
            /\ Goto(p, "idle")
            /\ Finish(p, "Update", Nil, Nil, NilItems, fetched[p], value[p])
            /\ upd' = UpdReturned(p, key[p])
            /\ cleared' = FALSE
            /\ UNCHANGED <<cache, isBeingFetchedMap, isBeingFetchedWG, wg,
                           isBeingFetchedLock, calls, fetchCount, clearCalled,
                           updateCalled, failed, stored, warm, newErr>>

\* ------------------------------------------- the second Cache (193-311)
\* Its Get returns (value, ok) (line 299).
Finish2(p, v, okv, f) ==
    /\ res' = [res EXCEPT ![p] = [NoRes EXCEPT !.op = "Get", !.key = key[p], !.value = v,
                                                !.ok = okv, !.fetched = f,
                                                !.sawStored = sawStored[p],
                                                !.retry = retry[p], !.inStore = Entry(p),
                                                !.postClear = postClear[p]]]
    /\ key' = [key EXCEPT ![p] = Nil]
    /\ value' = [value EXCEPT ![p] = Nil]
    /\ fetched' = [fetched EXCEPT ![p] = NoFetch]
    /\ sawStored' = [sawStored EXCEPT ![p] = {}]
    /\ retry' = [retry EXCEPT ![p] = FALSE]
    /\ fetchOld' = [fetchOld EXCEPT ![p] = FALSE]
    /\ postClear' = [postClear EXCEPT ![p] = FALSE]
    /\ clearSeen' = [clearSeen EXCEPT ![p] = FALSE]

\* Get(key) is called and takes the store's read lock (line 252).
Get2Call(p, k) ==
    /\ CanCall(p)
    /\ CanRLock(itemsLock)
    /\ itemsLock' = RLock(itemsLock, p)
    /\ Goto(p, "h_read")
    /\ Begin(p, k, stored[k],
             k \in failed /\ OthersIdle(p) /\ ~items.isNil /\ items.kv[k] = Absent)
    /\ UNCHANGED <<cache, mapVars, isBeingFetchedLock, fetchOld,
                   fetchCount, clearCalled, updateCalled, failed, upd, stored, cleared, warm, newErr>>

\* Lines 253-256: the lookup (a nil store misses) and the hit's return.
Get2Read(p) ==
    /\ ~Crashed /\ pc[p] = "h_read"
    /\ itemsLock' = RUnlock(itemsLock, p)
    /\ IF items.kv[key[p]] # Absent
       THEN /\ Goto(p, "idle")
            /\ Finish2(p, items.kv[key[p]], TRUE, fetched[p])
       ELSE /\ Goto(p, "h_chk_rlock")
            /\ UNCHANGED callVars
    /\ UNCHANGED <<cache, mapVars, isBeingFetchedLock, globVars>>

\* Line 258.
Get2ChkRLock(p) ==
    /\ ~Crashed /\ pc[p] = "h_chk_rlock"
    /\ CanRLock(isBeingFetchedLock)
    /\ isBeingFetchedLock' = RLock(isBeingFetchedLock, p)
    /\ Goto(p, "h_chk")
    /\ UNCHANGED <<cache, mapVars, itemsLock, callVars, globVars>>

\* Lines 259-262.
Get2Chk(p) ==
    /\ ~Crashed /\ pc[p] = "h_chk"
    /\ isBeingFetchedLock' = RUnlock(isBeingFetchedLock, p)
    /\ Goto(p, IF isBeingFetchedMap.kv[key[p]] THEN "h_wait" ELSE "h_lock")
    /\ UNCHANGED <<cache, mapVars, itemsLock, callVars, globVars>>

\* Line 263.
Get2Lock(p) ==
    /\ ~Crashed /\ pc[p] = "h_lock"
    /\ CanLock(isBeingFetchedLock)
    /\ isBeingFetchedLock' = Lock(isBeingFetchedLock, p)
    /\ Goto(p, "h_mark")
    /\ UNCHANGED <<cache, mapVars, itemsLock, callVars, globVars>>

\* Lines 264-275: mark, WaitGroup, Add(1), unlock, enter the fetcher.
Get2Mark(p) ==
    /\ ~Crashed /\ pc[p] = "h_mark"
    /\ IF isBeingFetchedMap.isNil \/ isBeingFetchedWG.isNil
       THEN Panic(p, "Get")
       ELSE /\ isBeingFetchedMap' = [isBeingFetchedMap EXCEPT !.kv[key[p]] = TRUE]
            /\ isBeingFetchedWG' = [isBeingFetchedWG EXCEPT !.kv[key[p]] = TRUE]
            /\ wg' = [wg EXCEPT ![key[p]] = @ + 1]
            /\ isBeingFetchedLock' = Unlock(isBeingFetchedLock, p)
            /\ Goto(p, "h_fetch")
            /\ fetchCount' = [fetchCount EXCEPT ![key[p]] = @ + 1]
            /\ fetchOld' = [fetchOld EXCEPT ![p] = FALSE]
            /\ UNCHANGED <<cache, items, itemsLock, key, value, res, fetched, sawStored,
                           retry, postClear, clearSeen, calls, clearCalled, updateCalled, failed, upd, stored, cleared, warm, newErr>>

\* Lines 275-280: the fetcher returns; its error becomes the value.
Get2FetchRet(p) ==
    /\ ~Crashed /\ pc[p] = "h_fetch"
    /\ \E r \in FetchResults :
         /\ value' = [value EXCEPT ![p] = IF r.err # Nil THEN r.err ELSE r.value]
         /\ fetched' = [fetched EXCEPT ![p] = r]
    /\ Goto(p, "h_store_lock")
    /\ UNCHANGED <<cache, mapVars, lockVars, key, res, sawStored, retry, postClear, clearSeen, fetchOld, globVars>>

\* Line 282.
Get2StoreLock(p) ==
    /\ ~Crashed /\ pc[p] = "h_store_lock"
    /\ CanLock(itemsLock)
    /\ itemsLock' = Lock(itemsLock, p)
    /\ Goto(p, "h_store")
    /\ UNCHANGED <<cache, mapVars, isBeingFetchedLock, callVars, globVars>>

\* Lines 283-284: the value, or the error, goes into the store.
Get2Store(p) ==
    /\ ~Crashed /\ pc[p] = "h_store"
    /\ IF items.isNil
       THEN Panic(p, "Get")
       ELSE /\ items' = [items EXCEPT !.kv[key[p]] = value[p]]
            /\ itemsLock' = Unlock(itemsLock, p)
            /\ Goto(p, "h_unmark_lock")
            /\ stored' = [stored EXCEPT ![key[p]] = @ \cup {value[p]}]
            /\ cleared' = FALSE
            /\ UNCHANGED <<cache, isBeingFetchedMap, isBeingFetchedWG, wg,
                           isBeingFetchedLock, callVars, calls, fetchCount, clearCalled,
                           updateCalled, failed, upd, warm, newErr>>

\* Line 286.
Get2UnmarkLock(p) ==
    /\ ~Crashed /\ pc[p] = "h_unmark_lock"
    /\ CanLock(isBeingFetchedLock)
    /\ isBeingFetchedLock' = Lock(isBeingFetchedLock, p)
    /\ Goto(p, "h_unmark")
    /\ UNCHANGED <<cache, mapVars, itemsLock, callVars, globVars>>

\* Lines 287-288.
Get2Unmark(p) ==
    /\ ~Crashed /\ pc[p] = "h_unmark"
    /\ isBeingFetchedMap' = [isBeingFetchedMap EXCEPT !.kv[key[p]] = FALSE]
    /\ isBeingFetchedLock' = Unlock(isBeingFetchedLock, p)
    /\ Goto(p, "h_ret")
    /\ UNCHANGED <<cache, items, isBeingFetchedWG, wg, itemsLock, callVars, globVars>>

\* Lines 290 and 299: wg.Done(), and the leader returns (value, ok), ok
\* telling whether the fetch succeeded.
Get2Ret(p) ==
    /\ ~Crashed /\ pc[p] = "h_ret"
    /\ wg' = DoneWG(key[p])
    /\ pc' = DonePc(p, key[p], "idle")
    /\ Finish2(p, value[p], fetched[p].err = Nil, fetched[p])
    /\ failed' = IF fetched[p].err # Nil THEN failed \cup {key[p]} ELSE failed
    /\ UNCHANGED <<cache, items, isBeingFetchedMap, isBeingFetchedWG, lockVars,
                   calls, fetchCount, clearCalled, updateCalled, upd, stored, cleared, warm, newErr>>

\* Lines 291-292: as line 97.
Get2Wait(p) ==
    /\ ~Crashed /\ pc[p] = "h_wait"
    /\ \E fatal \in {FALSE} \cup {RacyWGRead(p)} :
         IF fatal \/ ~isBeingFetchedWG.kv[key[p]]
         THEN Panic(p, "Get")
         ELSE /\ Goto(p, IF wg[key[p]] = 0 THEN "h_reread_rlock" ELSE "h_blocked")
              /\ UNCHANGED <<cache, mapVars, lockVars, callVars, globVars>>

\* Wait resumes after the release (see GetWoken).
Get2Woken(p) ==
    /\ ~Crashed /\ pc[p] = "h_woken"
    /\ IF wg[key[p]] # 0
       THEN Panic(p, "Get")
       ELSE /\ Goto(p, "h_reread_rlock")
            /\ UNCHANGED <<cache, mapVars, lockVars, callVars, globVars>>

\* Line 293.
Get2RereadRLock(p) ==
    /\ ~Crashed /\ pc[p] = "h_reread_rlock"
    /\ CanRLock(itemsLock)
    /\ itemsLock' = RLock(itemsLock, p)
    /\ Goto(p, "h_reread")
    /\ UNCHANGED <<cache, mapVars, isBeingFetchedLock, callVars, globVars>>

\* Lines 294-299: the follower returns what the store holds now; ok is the
\* outcome of the type assertion value.(error).
Get2Reread(p) ==
    /\ ~Crashed /\ pc[p] = "h_reread"
    /\ itemsLock' = RUnlock(itemsLock, p)
    /\ Goto(p, "idle")
    /\ Finish2(p, IF items.kv[key[p]] = Absent THEN Nil ELSE items.kv[key[p]],
               items.kv[key[p]] \in Errs, fetched[p])
    /\ UNCHANGED <<cache, mapVars, isBeingFetchedLock, globVars>>

\* GetAll() is called and takes the store's read lock (lines 304-305).
GetAll2Call(p) ==
    /\ CanCall(p)
    /\ CanRLock(itemsLock)
    /\ itemsLock' = RLock(itemsLock, p)
    /\ Goto(p, "b_copy")
    /\ Begin(p, Nil, {}, FALSE)
    /\ UNCHANGED <<cache, mapVars, isBeingFetchedLock, fetchOld,
                   fetchCount, clearCalled, updateCalled, failed, upd, stored, cleared, warm, newErr>>

\* Lines 306-310: a copy of the store; ranging over a nil store copies
\* nothing, and the empty map is returned.
GetAll2Copy(p) ==
    /\ ~Crashed /\ pc[p] = "b_copy"
    /\ itemsLock' = RUnlock(itemsLock, p)
    /\ Goto(p, "idle")
    /\ Finish(p, "GetAll", Nil, Nil, [items EXCEPT !.isNil = FALSE], fetched[p], Entry(p))
    /\ UNCHANGED <<cache, mapVars, isBeingFetchedLock, globVars>>

\* Clear() is called: lines 242-244 read the store's field without the
\* lock and refuse a nil store.
Clear2Call(p) ==
    /\ CanCall(p)
    /\ Begin(p, Nil, {}, FALSE)
    /\ clearCalled' = TRUE
    /\ upd' = [k \in Keys |-> NoUpd]
    /\ Goto(p, IF items.isNil THEN "d_refuse" ELSE "d_lock")
    /\ UNCHANGED <<cache, mapVars, lockVars, fetchOld, fetchCount, updateCalled,
                   failed, stored, cleared, warm, newErr>>

\* Line 243.
Clear2Refuse(p) ==
    /\ ~Crashed /\ pc[p] = "d_refuse"
    /\ Goto(p, "idle")
    /\ Finish(p, "Clear", Nil, ErrNotInitialized, NilItems, fetched[p], Entry(p))
    /\ UNCHANGED <<cache, mapVars, lockVars, globVars>>

\* Line 245.
Clear2Lock(p) ==
    /\ ~Crashed /\ pc[p] = "d_lock"
    /\ CanLock(itemsLock)
    /\ itemsLock' = Lock(itemsLock, p)
    /\ Goto(p, "d_set")
    /\ UNCHANGED <<cache, mapVars, isBeingFetchedLock, callVars, globVars>>

\* Lines 246-248.
Clear2Set(p) ==
    /\ ~Crashed /\ pc[p] = "d_set"
    /\ items' = EmptyItems
    /\ itemsLock' = Unlock(itemsLock, p)
    /\ Goto(p, "idle")
    /\ FinishCall(p, "Clear", Nil, Nil, NilItems, fetched[p], Entry(p))
    /\ cleared' = TRUE
    /\ clearSeen' = [q \in Procs |-> q # p /\ (clearSeen[q] \/ HasFetch(q))]
    /\ UNCHANGED <<cache, isBeingFetchedMap, isBeingFetchedWG, wg, isBeingFetchedLock,
                   calls, fetchCount, clearCalled, updateCalled, failed, upd, stored,
                   warm, newErr>>

\* ----------------------------------------------------------- specification
Next ==
    \/ NewPlain
    \/ NewPreWarm
    \/ ZeroValue
    \/ \E p \in Procs, k \in Keys : GetCall(p, k)
    \/ \E p \in Procs : GetRead(p)
    \/ \E p \in Procs : GetChkRLock(p)
    \/ \E p \in Procs : GetChk(p)
    \/ \E p \in Procs : GetLock(p)
    \/ \E p \in Procs : GetMark(p)
    \/ \E p \in Procs : GetFetchRet(p)
    \/ \E p \in Procs : GetStoreLock(p)
    \/ \E p \in Procs : GetStore(p)
    \/ \E p \in Procs : GetUnmarkLock(p)
    \/ \E p \in Procs : GetUnmark(p)
    \/ \E p \in Procs : GetRet(p)
    \/ \E p \in Procs : GetWait(p)
    \/ \E p \in Procs : GetWoken(p)
    \/ \E p \in Procs : GetRereadRLock(p)
    \/ \E p \in Procs : GetReread(p)
    \/ \E p \in Procs : GetAllCall(p)
    \/ \E p \in Procs : GetAllCopy(p)
    \/ \E p \in Procs : ClearCall(p)
    \/ \E p \in Procs : ClearSet(p)
    \/ \E p \in Procs, k \in Keys : UpdateCall(p, k)
    \/ \E p \in Procs : UpdateChk(p)
    \/ \E p \in Procs : UpdateLock(p)
    \/ \E p \in Procs : UpdateMark(p)
    \/ \E p \in Procs : UpdateFetchRet(p)
    \/ \E p \in Procs : UpdateStoreLock(p)
    \/ \E p \in Procs : UpdateStore(p)
    \/ \E p \in Procs : UpdateUnmarkLock(p)
    \/ \E p \in Procs : UpdateUnmark(p)
    \/ \E p \in Procs : UpdateRet(p)
    \/ \E p \in Procs : UpdateWait(p)
    \/ \E p \in Procs : UpdateWoken(p)
    \/ \E p \in Procs : UpdateFetch2Ret(p)
    \/ \E p \in Procs : UpdateStore2Lock(p)
    \/ \E p \in Procs : UpdateStore2(p)

Spec == Init /\ [][Next]_vars
\* Every runnable goroutine is scheduled in the end, and every invocation of
\* the fetcher returns: a step that stays possible is taken.
FairSpec == Spec /\ WF_vars(Next)

\* Get, GetAll and Clear alone, on a cache New returned.
GetSteps(p) ==
    \/ \E k \in Keys : GetCall(p, k)
    \/ GetRead(p)
    \/ GetChkRLock(p)
    \/ GetChk(p)
    \/ GetLock(p)
    \/ GetMark(p)
    \/ GetFetchRet(p)
    \/ GetStoreLock(p)
    \/ GetStore(p)
    \/ GetUnmarkLock(p)
    \/ GetUnmark(p)
    \/ GetRet(p)
    \/ GetWait(p)
    \/ GetWoken(p)
    \/ GetRereadRLock(p)
    \/ GetReread(p)
    \/ GetAllCall(p)
    \/ GetAllCopy(p)
    \/ ClearCall(p)
    \/ ClearSet(p)
NextGet == NewPlain \/ NewPreWarm \/ \E p \in Procs : GetSteps(p)
SpecGet == Init /\ [][NextGet]_vars

\* The key every caller of the two scenarios below contends for: the one the
\* prewarm fills, so that hits, misses and refreshes of it all occur.
HotKey == "a"
\* The goroutine that refreshes it.
Updater == CHOOSE p \in Procs : TRUE

\* The steps of a Get after its call.
GetTail(p) ==
    \/ GetRead(p)
    \/ GetChkRLock(p)
    \/ GetChk(p)
    \/ GetLock(p)
    \/ GetMark(p)
    \/ GetFetchRet(p)
    \/ GetStoreLock(p)
    \/ GetStore(p)
    \/ GetUnmarkLock(p)
    \/ GetUnmark(p)
    \/ GetRet(p)
    \/ GetWait(p)
    \/ GetWoken(p)
    \/ GetRereadRLock(p)
    \/ GetReread(p)
\* The steps of an Update after its call.
UpdateTail(p) ==
    \/ UpdateChk(p)
    \/ UpdateLock(p)
    \/ UpdateMark(p)
    \/ UpdateFetchRet(p)
    \/ UpdateStoreLock(p)
    \/ UpdateStore(p)
    \/ UpdateUnmarkLock(p)
    \/ UpdateUnmark(p)
    \/ UpdateRet(p)
    \/ UpdateWait(p)
    \/ UpdateWoken(p)
    \/ UpdateFetch2Ret(p)
    \/ UpdateStore2Lock(p)
    \/ UpdateStore2(p)

\* One goroutine refreshes the hot key with Update while the others Get it.
FetchSteps(p) ==
    \/ p # Updater /\ GetCall(p, HotKey)
    \/ GetTail(p)
    \/ p = Updater /\ UpdateCall(p, HotKey)
    \/ UpdateTail(p)
NextFetch == NewPlain \/ NewPreWarm \/ \E p \in Procs : FetchSteps(p)
SpecFetch == Init /\ [][NextFetch]_vars

\* Every goroutine Gets the hot key or Clears the cache.
ClearSteps(p) ==
    \/ GetCall(p, HotKey)
    \/ GetTail(p)
    \/ ClearCall(p)
    \/ ClearSet(p)
NextClear == NewPlain \/ NewPreWarm \/ \E p \in Procs : ClearSteps(p)
SpecClear == Init /\ [][NextClear]_vars

\* Construction followed by the calls that show the store: GetAll and Clear.
NewSteps(p) ==
    \/ GetAllCall(p)
    \/ GetAllCopy(p)
    \/ ClearCall(p)
    \/ ClearSet(p)
NextNew == NewPlain \/ NewPreWarm \/ \E p \in Procs : NewSteps(p)
SpecNew == Init /\ [][NextNew]_vars

\* Every call on the zero-value cache: the steps it can reach there.
ZeroSteps(p) ==
    \/ \E k \in Keys : GetCall(p, k)
    \/ GetRead(p)
    \/ GetChkRLock(p)
    \/ GetChk(p)
    \/ GetLock(p)
    \/ GetMark(p)
    \/ GetAllCall(p)
    \/ GetAllCopy(p)
    \/ ClearCall(p)
    \/ ClearSet(p)
    \/ \E k \in Keys : UpdateCall(p, k)
    \/ UpdateChk(p)
    \/ UpdateLock(p)
    \/ UpdateMark(p)
NextZero == ZeroValue \/ \E p \in Procs : ZeroSteps(p)
SpecZero == Init /\ [][NextZero]_vars

\* The second Cache of the file: New, &Cache{}, Get, GetAll and Clear.
Steps2(p) ==
    \/ \E k \in Keys : Get2Call(p, k)
    \/ Get2Read(p)
    \/ Get2ChkRLock(p)
    \/ Get2Chk(p)
    \/ Get2Lock(p)
    \/ Get2Mark(p)
    \/ Get2FetchRet(p)
    \/ Get2StoreLock(p)
    \/ Get2Store(p)
    \/ Get2UnmarkLock(p)
    \/ Get2Unmark(p)
    \/ Get2Ret(p)
    \/ Get2Wait(p)
    \/ Get2Woken(p)
    \/ Get2RereadRLock(p)
    \/ Get2Reread(p)
    \/ GetAll2Call(p)
    \/ GetAll2Copy(p)
    \/ Clear2Call(p)
    \/ Clear2Refuse(p)
    \/ Clear2Lock(p)
    \/ Clear2Set(p)
Next2 == NewPlain \/ NewPreWarm \/ ZeroValue \/ \E p \in Procs : Steps2(p)
Spec2 == Init /\ [][Next2]_vars

\* ------------------------------------------------------------------ claims
\* The calls so far are Get calls alone (with GetAll) on a cache New returned.
GetsOnly == cache = "new" /\ ~clearCalled /\ ~updateCalled
\* A Get of key k that has returned a nil error.
GotValue(p, k) == res[p].op = "Get" /\ res[p].key = k /\ res[p].err = Nil

\* C1: single-flight.  On an initialized cache, under any interleaving of
\* Get calls with or without Clear, no two callers are at the same time
\* inside the fetcher for the same key.
SingleFlight ==
    (cache = "new" /\ ~updateCalled) =>
        \A p, q \in Procs :
            (p # q /\ pc[p] = "g_fetch" /\ pc[q] = "g_fetch") => key[p] # key[q]

\* C2: fetch count.  With concurrent Get calls alone on a fresh cache, none
\* of them failing, the fetcher is invoked at most once per key.
FetchedAtMostOnce ==
    (GetsOnly /\ failed = {}) => \A k \in Keys : fetchCount[k] <= 1

\* C3: result agreement.  With Get calls alone on a fresh cache, all the
\* calls for one key that return a nil error return the same value.
ResultsAgree ==
    GetsOnly =>
        \A p, q \in Procs, k \in Keys :
            (GotValue(p, k) /\ GotValue(q, k)) => res[p].value = res[q].value

\* C4: hit correctness.  Absent any Clear or Update, a Get of K that starts
\* once the prewarm or a Get leader has stored V under K returns V with a
\* nil error, without invoking the fetcher.
HitCorrect ==
    GetsOnly =>
        \A p \in Procs :
            res[p].op = "Get" =>
                \A v \in res[p].sawStored :
                    /\ res[p].value = v
                    /\ res[p].err = Nil
                    /\ res[p].fetched = NoFetch

\* C5: retry after failure.  A Get of K, alone from its start to its
\* return, that follows a Get of K which returned the fetcher's error and
\* finds K absent, invokes the fetcher; when that fetch succeeds with V the
\* call returns (V, nil) and leaves V under K.
RetryRefetches ==
    \A p \in Procs :
        (cache = "new" /\ res[p].op = "Get" /\ res[p].retry) =>
            /\ res[p].fetched # NoFetch
            /\ res[p].fetched.err = Nil =>
                 /\ res[p].value = res[p].fetched.value
                 /\ res[p].err = Nil
                 /\ res[p].inStore = res[p].fetched.value

\* C6: fetch errors are surfaced and never stored.  No entry of the store,
\* nor of a map GetAll returned, is an error; a Get whose fetch returned an
\* error returns that error (as its error, or in the second Cache as its
\* value); and no step the leader takes once its fetch has failed, its
\* return included, changes the store.
StoreHasNoError ==
    /\ \A k \in Keys : items.kv[k] \notin Errs
    /\ \A p \in Procs, k \in Keys : res[p].all.kv[k] \notin Errs
    /\ \A p \in Procs :
         (res[p].op = "Get" /\ res[p].fetched.err # Nil) =>
             (res[p].err = res[p].fetched.err \/ res[p].value = res[p].fetched.err)
ErrorReturnKeepsStore ==
    \A p \in Procs :
        (\/ pc[p] = "g_fetch" /\ pc'[p] = "idle"
         \/ fetched[p].err # Nil /\ pc'[p] # pc[p]) => items' = items
FetchErrorsNotStored == []StoreHasNoError /\ [][ErrorReturnKeepsStore]_vars
\* A Get leader has returned the fetcher's error and its key is still absent.
FetchErrorSurfaced ==
    \E p \in Procs :
        /\ res[p].op = "Get" /\ res[p].err \in Errs
        /\ res[p].inStore = Absent /\ items.kv[res[p].key] = Absent

\* C7: Update respects single-flight.  Whenever two callers are inside the
\* fetcher for the same key, neither of them is an Update.
UpdateSingleFlight ==
    cache = "new" =>
        \A p, q \in Procs :
            (p # q /\ InFetch(p) /\ InFetch(q) /\ key[p] = key[q]) =>
                (pc[p] = "g_fetch" /\ pc[q] = "g_fetch")

\* C8: Update is authoritative.  Once the latest Update of K has returned a
\* nil error, and no Clear or Update was called since, no Get leader writes
\* over the value under K the result of a fetch that started before that
\* Update was called.
StoresStale(p) ==
    /\ pc[p] = "g_store" /\ pc'[p] = "g_unmark_lock"
    /\ fetchOld[p]
    /\ upd[key[p]].ok
    /\ items'.kv[key[p]] # items.kv[key[p]]
UpdateAuthoritative == [][\A p \in Procs : ~StoresStale(p)]_vars

\* C9: Clear on the zero-value cache returns ErrNotInitialized and leaves
\* the store nil.
ZeroClearRefused ==
    cache = "zero" =>
        /\ items.isNil
        /\ \A p \in Procs : res[p].op = "Clear" => res[p].err = ErrNotInitialized

ClearEmptiesStore ==
    cache = "new" =>
        /\ cleared => items = EmptyItems
        /\ \A p \in Procs :
             /\ (res[p].op = "GetAll" /\ res[p].postClear) => res[p].all = EmptyItems
             /\ (res[p].op = "Get" /\ res[p].postClear) => res[p].fetched # NoFetch

\* C12: Clear leaves in-flight work untouched.  The step on which Clear
\* replaces the store changes neither the tracker, nor the waiters, nor any
\* other caller's position or locals; a Get leader whose fetch was under way
\* when a Clear returned still writes its fetched value under its key; only
\* a Clear takes a key out of the store; and the leader's return still
\* counts its WaitGroup down, the last return leaving no caller blocked on
\* the key.
ClearStep(p) == pc[p] = "c_set" /\ pc'[p] = "idle"
ClearFrame ==
    \A p \in Procs :
        ClearStep(p) =>
            /\ UNCHANGED <<isBeingFetchedMap, isBeingFetchedWG, wg, isBeingFetchedLock>>
            /\ \A q \in Procs \ {p} :
                 /\ pc'[q] = pc[q] /\ key'[q] = key[q]
                 /\ value'[q] = value[q] /\ fetched'[q] = fetched[q]
LeaderStillStores ==
    \A p \in Procs :
        (clearSeen[p] /\ pc[p] = "g_store" /\ pc'[p] # "g_store") =>
            /\ fetched[p].err = Nil
            /\ items'.kv[key[p]] = fetched[p].value
OnlyClearRemoves ==
    \A k \in Keys :
        (items.kv[k] # Absent /\ items'.kv[k] = Absent) => \E p \in Procs : ClearStep(p)
LeaderStillReleases ==
    \A p \in Procs :
        (clearSeen[p] /\ pc[p] \in {"g_fetch", "g_ret"} /\ pc'[p] = "idle") =>
            /\ wg'[key[p]] = wg[key[p]] - 1
            /\ wg'[key[p]] = 0 =>
                 \A q \in Procs : ~(pc'[q] \in {"g_blocked", "u_blocked"} /\ key'[q] = key[p])
ClearLeavesInFlight ==
    [][ClearFrame /\ LeaderStillStores /\ OnlyClearRemoves /\ LeaderStillReleases]_vars
\* A Clear returned during a Get leader's fetch; the leader has since stored
\* its value, which is in the store, and a follower is blocked on its key.
ClearDuringFetchSeen ==
    \E p, q \in Procs :
        /\ clearSeen[p] /\ pc[p] = "g_ret" /\ items.kv[key[p]] = value[p]
        /\ pc[q] = "g_blocked" /\ key[q] = key[p]

\* C13: construction.  When the prewarm function returns an error, New
\* returns that error and no cache, so that nothing is ever called on one
\* and the fetcher is not invoked; New returns a cache only with a nil
\* error; it does not invoke the fetcher; and a GetAll that is the first
\* call on the new cache returns the prewarm's mapping, or the empty
\* non-nil mapping when New was given no prewarm function.
Construction ==
    /\ (warm.given /\ warm.err # Nil) =>
           /\ cache = "failed" /\ newErr = warm.err
           /\ calls = 0 /\ \A p \in Procs : pc[p] = "idle"
    /\ cache = "new" => (newErr = Nil /\ warm.err = Nil)
    /\ calls = 0 => fetchCount = [k \in Keys |-> 0]
    /\ \A p \in Procs :
         (cache = "new" /\ calls = 1 /\ res[p].op = "GetAll") =>
             res[p].all = IF warm.given THEN warm.items ELSE EmptyItems
\* New has returned the prewarm's error and no cache.
ConstructionFailed == cache = "failed" /\ warm.err \in Errs /\ newErr = warm.err

\* C14: snapshot content.  The map a GetAll returns is, entry by entry, the
\* store at the instant of the copy; every step that puts a value under a
\* key of the store is New handing over the prewarm's entry, or a caller
\* writing the value that its own completed, successful fetch of that key
\* returned; hence every entry of the store and of a returned map is a
\* value, never an error or a placeholder.
GetAllHoldsValues ==
    /\ \A k \in Keys : items.kv[k] \in Values \cup {Absent}
    /\ \A p \in Procs, k \in Keys :
         res[p].op = "GetAll" => res[p].all.kv[k] \in Values \cup {Absent}
SnapshotIsStore ==
    \A p \in Procs :
        (pc[p] \in {"a_copy", "b_copy"} /\ pc'[p] = "idle") =>
            \A k \in Keys : res'[p].all.kv[k] = items.kv[k]
StoreWritesAreFetched ==
    \A k \in Keys :
        (items'.kv[k] # items.kv[k] /\ items'.kv[k] # Absent) =>
            \/ cache = "none" /\ warm'.given /\ items'.kv[k] = warm'.items.kv[k]
            \/ \E p \in Procs :
                 /\ key[p] = k /\ pc'[p] # pc[p]
                 /\ fetched[p] = [value |-> items'.kv[k], err |-> Nil]
SnapshotContent == []GetAllHoldsValues /\ [][SnapshotIsStore /\ StoreWritesAreFetched]_vars

\* C15: the in-flight flag is always cleared.  On a cache New returned,
\* whenever no caller is a leader of K between marking K and returning, the
\* in-flight flag of K is false.
LeaderOf(p, k) ==
    /\ key[p] = k
    /\ pc[p] \in {"g_fetch", "g_store_lock", "g_store", "g_unmark_lock", "g_unmark", "g_ret",
                  "u_fetch", "u_store_lock", "u_store", "u_unmark_lock", "u_unmark", "u_ret"}
FlagAlwaysCleared ==
    cache = "new" =>
        \A k \in Keys :
            (\A p \in Procs : ~LeaderOf(p, k) /\ ~(InFetch(p) /\ key[p] = k)) =>
                ~isBeingFetchedMap.kv[k]

\* C16: followers are never stranded.  On a cache New returned with a
\* non-nil store, a caller blocked on a key's WaitGroup always has a leader
\* of that key still to run its Done, and under fair scheduling every Get
\* and every Update that was called returns.
InKeyedCall(p) == cache = "new" /\ ~items.isNil /\ pc[p] # "idle" /\ key[p] \in Keys
WaiterHasLeader ==
    \A p \in Procs :
        (InKeyedCall(p) /\ pc[p] \in {"g_blocked", "u_blocked"}) =>
            \E q \in Procs : LeaderOf(q, key[p])
NeverStranded ==
    /\ []WaiterHasLeader
    /\ \A p \in Procs : InKeyedCall(p) ~> (pc[p] = "idle")

\* C17: no lock is held across a fetch.  A caller that is inside the
\* fetcher holds neither the store's lock nor the tracker's lock, for
\* reading or for writing; so when every running call is inside the
\* fetcher both locks are free, and a Get of a cached key or a Clear that
\* starts then finds them free.
Holds(l, p) == l.w = p \/ p \in l.r
NoLockAcrossFetch ==
    /\ \A p \in Procs :
         InFetch(p) => (~Holds(itemsLock, p) /\ ~Holds(isBeingFetchedLock, p))
    /\ (\A p \in Procs : pc[p] = "idle" \/ InFetch(p)) =>
           (itemsLock = FreeLock /\ isBeingFetchedLock = FreeLock)
\* A Get leader and an Update are inside the fetcher together.
TwoFetchesRunning ==
    \E p, q \in Procs :
        /\ pc[p] = "g_fetch" /\ pc[q] \in {"u_fetch", "u_fetch2"}
        /\ itemsLock = FreeLock /\ isBeingFetchedLock = FreeLock

\* C18: lock protection of the shared maps.  A caller about to read the
\* store holds the store's lock for reading, one about to write it holds it
\* for writing; likewise for the tracker and the waiters map under the
\* tracker's lock; and no caller looks a WaitGroup up in the waiters map
\* while another is inserting one.
ReadsItems(p) == pc[p] \in {"g_read", "g_reread", "a_copy", "h_read", "h_reread", "b_copy"}
WritesItems(p) == pc[p] \in {"g_store", "c_set", "u_store", "u_store2", "h_store", "d_set"}
ReadsTracker(p) == pc[p] \in {"g_chk", "u_chk", "h_chk"}
WritesTracker(p) == pc[p] \in {"g_mark", "g_unmark", "u_mark", "u_unmark", "h_mark", "h_unmark"}
ReadsWaiters(p) == pc[p] \in {"g_wait", "u_wait", "h_wait"}
LockProtected ==
    \A p \in Procs :
        /\ ReadsItems(p) => p \in itemsLock.r
        /\ WritesItems(p) => itemsLock.w = p
        /\ ReadsTracker(p) => p \in isBeingFetchedLock.r
        /\ WritesTracker(p) => isBeingFetchedLock.w = p
        /\ ReadsWaiters(p) => (Holds(isBeingFetchedLock, p) /\ ~RacyWGRead(p))

\* C19: no empty success.  On a cache New returned, every Get that has
\* returned a nil error has returned a value, never nil.
NoEmptySuccess ==
    cache = "new" =>
        \A p \in Procs :
            (res[p].op = "Get" /\ res[p].err = Nil) => res[p].value \in Values

\* C20: a cache New returned is initialized.  Its store is not nil, no Get
\* on it has returned ErrNotInitialized, and no GetAll on it has returned
\* nil.
NewIsInitialized ==
    cache = "new" =>
        /\ ~items.isNil
        /\ \A p \in Procs :
             /\ res[p].op = "Get" => res[p].err # ErrNotInitialized
             /\ res[p].op = "GetAll" => ~res[p].all.isNil
====
